---- MODULE Spec2Model ----
(***************************************************************************)
(* A model of Password_Generator.py: the Password_Generator class (prefs,  *)
(* pool, generate_password), the record table kept in                      *)
(* passwords_sheet.xlsx by PasswordGUI.save_excel, and the button handler  *)
(* PasswordGUI.generate_password that ties the two together.               *)
(*                                                                         *)
(* A Python str is a sequence of one-character strings, so that upper(),   *)
(* int(), startswith() and membership in the pool are computed, not        *)
(* assumed.                                                                *)
(***************************************************************************)
EXTENDS Integers, Sequences, FiniteSets

VARIABLES
    prefs,      \* Password_Generator.prefs (the dict; set = FALSE while it is {})
    pool,       \* Password_Generator.pool
    ret,        \* outcome of the last direct call on the Password_Generator
    file,       \* what is at the path passwords_sheet.xlsx
    spc,        \* per caller of save_excel: its position in the method
    sargs,      \* per caller: the row built at lines 224-228
    sframe,     \* per caller: the frame it is about to write (updated / df)
    sbase,      \* per caller: what it found at the path (line 233, line 247)
    sdirty,     \* per caller: another caller wrote the path since this one opened it
    started,    \* what was at the path before the first save_excel call
    log,        \* the completed save_excel calls, in completion order
    gpc,        \* position of the button handler PasswordGUI.generate_password
    glocal,     \* the handler's locals: length, password, purpose, timestamp
    label,      \* result_label: what the window shows
    gobs        \* what the current request has done, and what it started from

genVars   == <<prefs, pool>>
storeVars == <<file, spc, sargs, sframe, sbase, sdirty, started, log>>
guiVars   == <<gpc, glocal, label, gobs>>
vars      == <<prefs, pool, ret, file, spc, sargs, sframe, sbase, sdirty, started, log,
               gpc, glocal, label, gobs>>

(***************************************************************************)
(* Bounds of the model.                                                    *)
(***************************************************************************)
\* direct calls of set_preferences store a length in -1..MaxLen, or a non-integer
MaxLen == 2
\* secrets.choice is sampled at this many evenly spaced indices of the pool,
\* the first and the last index included (with 3, the middle one of the
\* 27 symbols is '=')
DrawPoints == 3
\* the table is grown to at most this many rows by direct save_excel calls
MaxRows == 2
\* the table is grown to at most this many rows through the window
GuiMaxRows == 2

(***************************************************************************)
(* Strings.                                                                *)
(***************************************************************************)
Range(s) == {s[i] : i \in 1..Len(s)}

\* the four literals of create_pool
LOWERCASE == <<"a", "b", "c", "d", "e", "f", "g", "h", "i", "j", "k", "l", "m",
               "n", "o", "p", "q", "r", "s", "t", "u", "v", "w", "x", "y", "z">>
UPPERCASE == <<"A", "B", "C", "D", "E", "F", "G", "H", "I", "J", "K", "L", "M",
               "N", "O", "P", "Q", "R", "S", "T", "U", "V", "W", "X", "Y", "Z">>
DIGITS    == <<"0", "1", "2", "3", "4", "5", "6", "7", "8", "9">>
SYMBOLS   == <<"!", "@", "#", "$", "%", "^", "&", "*", "(", ")", "_", "+", "-",
               "=", "[", "]", "}", "{", "|", ";", ":", ",", ".", "<", ">", "/",
               "?">>

(***************************************************************************)
(* Password_Generator.                                                     *)
(***************************************************************************)
\* a stored length: an int, or some other object (None, a str, a float)
IntLen(n) == [isint |-> TRUE, val |-> n]
OtherLen  == [isint |-> FALSE, val |-> 0]
LengthValues == {IntLen(n) : n \in -1..MaxLen} \cup {OtherLen}

\* __init__: prefs = {}, pool = ""
NoPrefs == [set |-> FALSE, length_input |-> OtherLen, lowercase |-> FALSE,
            uppercase |-> FALSE, numbers |-> FALSE, symbols |-> FALSE]

\* set_preferences stores the five values verbatim
set_preferences(length, lowercase, uppercase, numbers, symbols) ==
    [set |-> TRUE, length_input |-> length, lowercase |-> lowercase,
     uppercase |-> uppercase, numbers |-> numbers, symbols |-> symbols]

\* create_pool with the reset of line 47 forgotten
create_pool_noreset(self_prefs, self_pool) ==
    LET p1 == IF self_prefs.lowercase THEN self_pool \o LOWERCASE ELSE self_pool
        p2 == IF self_prefs.uppercase THEN p1 \o UPPERCASE ELSE p1
        p3 == IF self_prefs.numbers THEN p2 \o DIGITS ELSE p2
    IN  IF self_prefs.symbols THEN p3 \o SYMBOLS ELSE p3

\* create_pool, lines 47-66: the pool it leaves (self_pool is overwritten)
create_pool(self_prefs, self_pool) ==
    LET p0 == <<>>
        p1 == IF self_prefs.lowercase THEN p0 \o LOWERCASE ELSE p0
        p2 == IF self_prefs.uppercase THEN p1 \o UPPERCASE ELSE p1
        p3 == IF self_prefs.numbers THEN p2 \o DIGITS ELSE p2
    IN  IF self_prefs.symbols THEN p3 \o SYMBOLS ELSE p3

\* the outcomes of secrets.choice's index into a sequence of n items that the
\* model draws: DrawPoints evenly spaced indices of 0..n-1
Draws(n) == {(j * (n - 1)) \div (DrawPoints - 1) : j \in 0..(DrawPoints - 1)}

\* range(n) of an int: n iterations, none when n <= 0
RangeLen(n) == IF n > 0 THEN n ELSE 0

Outcome(status, value) == [status |-> status, value |-> value]

RECURSIVE generate_loop(_, _, _, _, _)
\* the for loop of lines 79-80: iteration i of n appends pool[draws[i]]
generate_loop(i, n, self_pool, draws, password) ==
    IF i > n THEN password
    ELSE generate_loop(i + 1, n, self_pool, draws,
                       Append(password, self_pool[draws[i] + 1]))

\* generate_password looping once too often
generate_password_offbyone(self_prefs, self_pool, draws) ==
    IF ~self_prefs.set THEN Outcome("KeyError", <<>>)
    ELSE IF ~self_prefs.length_input.isint THEN Outcome("TypeError", <<>>)
    ELSE IF RangeLen(self_prefs.length_input.val) = 0 THEN Outcome("ok", <<>>)
    ELSE IF self_pool = <<>> THEN Outcome("IndexError", <<>>)
    ELSE LET body == generate_loop(1, RangeLen(self_prefs.length_input.val),
                                   self_pool, draws, <<>>)
         IN  Outcome("ok", Append(body, self_pool[1]))

\* generate_password, lines 74-81, given the indices secrets.choice draws
generate_password(self_prefs, self_pool, draws) ==
    IF ~self_prefs.set THEN Outcome("KeyError", <<>>)
    ELSE IF ~self_prefs.length_input.isint THEN Outcome("TypeError", <<>>)
    ELSE IF RangeLen(self_prefs.length_input.val) = 0 THEN Outcome("ok", <<>>)
    ELSE IF self_pool = <<>> THEN Outcome("IndexError", <<>>)
    ELSE Outcome("ok", generate_loop(1, RangeLen(self_prefs.length_input.val),
                                     self_pool, draws, <<>>))

\* the sequences of indices the loop can draw
DrawSeqs(self_prefs, self_pool) ==
    IF self_prefs.set /\ self_prefs.length_input.isint /\ self_pool # <<>>
    THEN [1..RangeLen(self_prefs.length_input.val) -> Draws(Len(self_pool))]
    ELSE {<<>>}

Ret(op, status, value) == [op |-> op, status |-> status, value |-> value]

\* a direct call of set_preferences
SetPreferences ==
    /\ \E length \in LengthValues, lowercase, uppercase, numbers, symbols \in BOOLEAN :
          prefs' = set_preferences(length, lowercase, uppercase, numbers, symbols)
    /\ ret' = Ret("set_preferences", "ok", <<>>)
    /\ UNCHANGED <<pool, storeVars, guiVars>>

\* a direct call of create_pool; on prefs = {} line 47 runs, line 53 raises
CreatePool ==
    /\ IF prefs.set
       THEN /\ pool' = create_pool(prefs, pool)
            /\ ret' = Ret("create_pool", "ok", <<>>)
       ELSE /\ pool' = <<>>
            /\ ret' = Ret("create_pool", "KeyError", <<>>)
    /\ UNCHANGED <<prefs, storeVars, guiVars>>

\* a direct call of generate_password
GeneratePassword ==
    /\ \E draws \in DrawSeqs(prefs, pool) :
          LET out == generate_password(prefs, pool, draws)
          IN  ret' = Ret("generate_password", out.status, out.value)
    /\ UNCHANGED <<prefs, pool, storeVars, guiVars>>

\* pool is a public attribute: a caller assigns it (a one-character pool)
AssignPool ==
    /\ \E p \in {<<"x">>} : pool' = p
    /\ ret' = Ret("assign_pool", "ok", <<>>)
    /\ UNCHANGED <<prefs, storeVars, guiVars>>

(***************************************************************************)
(* The record table: pandas frames, the cells of the workbook, and the     *)
(* conversions between them that to_excel (through xlsxwriter) and         *)
(* read_excel perform with the default arguments save_excel passes.        *)
(***************************************************************************)
\* a value in a DataFrame: a str, NaN, or a number
Str(s) == [k |-> "str", s |-> s, n |-> 0]
NaN    == [k |-> "nan", s |-> <<>>, n |-> 0]
Num(n) == [k |-> "num", s |-> <<>>, n |-> n]

\* a cell of the worksheet: a string, nothing, a number, or a formula
StringCell(s)  == [k |-> "string", s |-> s, n |-> 0]
BlankCell      == [k |-> "blank", s |-> <<>>, n |-> 0]
NumberCell(n)  == [k |-> "number", s |-> <<>>, n |-> n]
FormulaCell(s) == [k |-> "formula", s |-> s, n |-> 0]

\* what is at the path: nothing, bytes that are no workbook, or a workbook
Absent  == [kind |-> "absent", cols |-> <<>>, rows |-> <<>>]
Corrupt == [kind |-> "corrupt", cols |-> <<>>, rows |-> <<>>]
Workbook(cols, rows) == [kind |-> "xlsx", cols |-> cols, rows |-> rows]

Frame(cols, rows) == [cols |-> cols, rows |-> rows]

\* the columns save_excel writes, lines 225-227
COLUMNS == <<"Purpose", "Password", "Timestamp">>

\* str.upper on one character
upper_char(c) ==
    IF \E i \in 1..Len(LOWERCASE) : LOWERCASE[i] = c
    THEN UPPERCASE[CHOOSE i \in 1..Len(LOWERCASE) : LOWERCASE[i] = c]
    ELSE c

\* purpose.upper(), line 225
upper(s) == [i \in 1..Len(s) |-> upper_char(s[i])]

\* str.startswith / str.endswith
startswith(s, prefix) ==
    /\ Len(s) >= Len(prefix)
    /\ SubSeq(s, 1, Len(prefix)) = prefix
endswith(s, suffix) ==
    /\ Len(s) >= Len(suffix)
    /\ SubSeq(s, Len(s) - Len(suffix) + 1, Len(s)) = suffix

\* xlsxwriter's Worksheet.write on a str with the default strings_to_formulas:
\* '' is a blank, '=...' and '{=...}' are written as formulas
write_string_token(s) ==
    IF s = <<>> THEN BlankCell
    ELSE IF startswith(s, <<"=">>) THEN FormulaCell(s)
    ELSE IF startswith(s, <<"{", "=">>) /\ endswith(s, <<"}">>) THEN FormulaCell(s)
    ELSE StringCell(s)

\* to_excel on one value: NaN becomes na_rep = '', the rest goes to write()
write_cell(v) ==
    IF v.k = "str" THEN write_string_token(v.s)
    ELSE IF v.k = "nan" THEN BlankCell
    ELSE NumberCell(v.n)

\* updated.to_excel(writer, index=False): the header row and the data rows
to_excel(frame) ==
    Workbook(frame.cols,
             [i \in 1..Len(frame.rows) |->
                 [j \in 1..Len(frame.cols) |-> write_cell(frame.rows[i][j])]])

\* a cell as the reader hands it to pandas: a formula yields its cached value,
\* which xlsxwriter writes as 0
cell_value(c) ==
    IF c.k = "string" THEN Str(c.s)
    ELSE IF c.k = "blank" THEN NaN
    ELSE IF c.k = "number" THEN Num(c.n)
    ELSE Num(0)

\* the strings read_excel takes for missing values (keep_default_na = True)
STR_NA_VALUES ==
    {<<>>,
     <<"#", "N", "/", "A">>,
     <<"#", "N", "/", "A", " ", "N", "/", "A">>,
     <<"#", "N", "A">>,
     <<"-", "1", ".", "#", "I", "N", "D">>,
     <<"-", "1", ".", "#", "Q", "N", "A", "N">>,
     <<"-", "N", "a", "N">>,
     <<"-", "n", "a", "n">>,
     <<"1", ".", "#", "I", "N", "D">>,
     <<"1", ".", "#", "Q", "N", "A", "N">>,
     <<"<", "N", "A", ">">>,
     <<"N", "/", "A">>,
     <<"N", "A">>,
     <<"N", "U", "L", "L">>,
     <<"N", "a", "N">>,
     <<"N", "o", "n", "e">>,
     <<"n", "/", "a">>,
     <<"n", "a", "n">>,
     <<"n", "u", "l", "l">>}

IsDigits(s) == Len(s) >= 1 /\ \A i \in 1..Len(s) : s[i] \in Range(DIGITS)

DigitValue(c) == (CHOOSE i \in 1..Len(DIGITS) : DIGITS[i] = c) - 1

RECURSIVE digits_value(_, _)
\* the number a string of digits parses to, most significant digit first
digits_value(s, acc) ==
    IF s = <<>> THEN acc ELSE digits_value(Tail(s), 10 * acc + DigitValue(Head(s)))

\* read_excel's type inference turns a column into numbers when every value of
\* it is a number, missing, or a str that parses as one (here: all digits;
\* the strings the model feeds it hold no '.', exponent or 'inf')
converts_to_number(v) ==
    \/ v.k = "num"
    \/ v.k = "nan"
    \/ v.k = "str" /\ (v.s \in STR_NA_VALUES \/ IsDigits(v.s))

to_number(v) ==
    IF v.k = "str"
    THEN (IF v.s \in STR_NA_VALUES THEN NaN ELSE Num(digits_value(v.s, 0)))
    ELSE v

\* otherwise the column keeps its objects, the missing-value strings replaced
sanitize(v) == IF v.k = "str" /\ v.s \in STR_NA_VALUES THEN NaN ELSE v

\* the inference on one column of values
infer_types(column) ==
    IF \A i \in 1..Len(column) : converts_to_number(column[i])
    THEN [i \in 1..Len(column) |-> to_number(column[i])]
    ELSE [i \in 1..Len(column) |-> sanitize(column[i])]

\* pd.read_excel(file_path) of a workbook, line 247
read_excel(f) ==
    LET raw(j) == [i \in 1..Len(f.rows) |-> cell_value(f.rows[i][j])]
    IN  Frame(f.cols,
              [i \in 1..Len(f.rows) |->
                  [j \in 1..Len(f.cols) |-> infer_types(raw(j))[i]]])

\* the columns of b that a lacks, in b's order
new_columns(a, b) == SelectSeq(b, LAMBDA c : c \notin Range(a))

\* a row of columns `from` laid out on columns `to`, NaN where it has no value
reindex(row, from, to) ==
    [j \in 1..Len(to) |->
        IF to[j] \in Range(from)
        THEN row[CHOOSE i \in 1..Len(from) : from[i] = to[j]]
        ELSE NaN]

\* a rewrite that forgets the rows it read
concat_dropexisting(existing, df) ==
    LET cols == existing.cols \o new_columns(existing.cols, df.cols)
    IN  Frame(cols, [i \in 1..Len(df.rows) |-> reindex(df.rows[i], df.cols, cols)])

\* pd.concat([existing, df], ignore_index=True), line 250: the union of the
\* columns, existing's first, and existing's rows followed by df's
concat(existing, df) ==
    LET cols == existing.cols \o new_columns(existing.cols, df.cols)
    IN  Frame(cols,
              [i \in 1..Len(existing.rows) |-> reindex(existing.rows[i], existing.cols, cols)]
              \o [i \in 1..Len(df.rows) |-> reindex(df.rows[i], df.cols, cols)])

\* the one-row frame of lines 224-228
row_frame(purpose, password, timestamp) ==
    Frame(COLUMNS, << <<Str(upper(purpose)), Str(password), Str(timestamp)>> >>)

(***************************************************************************)
(* PasswordGUI.save_excel, step by step.  A caller is a thread or process  *)
(* running the method; the method takes no lock, so the steps of two       *)
(* callers interleave freely.                                              *)
(***************************************************************************)
Procs == {1, 2}

Args(purpose, password, timestamp) ==
    [purpose |-> purpose, password |-> password, timestamp |-> timestamp]
NoArgs == Args(<<>>, <<>>, <<>>)
NoFrame == Frame(<<>>, <<>>)

\* os.path.exists(file_path), line 233
exists(f) == f.kind # "absent"

\* line 233: the branch save_excel takes on what is at the path
branch_after_check(f) == IF exists(f) THEN "read" ELSE "open"

\* lines 247-250: the frame the else branch will write, or the error of
\* read_excel on something that is no workbook
read_and_concat(f, df) ==
    IF f.kind = "xlsx"
    THEN [status |-> "ok", frame |-> concat(read_excel(f), df)]
    ELSE [status |-> "raised", frame |-> df]

\* the arguments direct callers pass
Purposes   == {<<"n", "a">>, <<"w", "e", "b">>}
Passwords  == {<<"a", "b">>, <<"=", "a">>, <<"0", "7">>}
\* datetime.now().strftime('%Y-%m-%d %H:%M:%S') at two instants
Timestamps ==
    {<<"2", "0", "2", "4", "-", "0", "1", "-", "0", "1", " ",
       "0", "0", ":", "0", "0", ":", "0", "0">>,
     <<"2", "0", "2", "4", "-", "0", "1", "-", "0", "1", " ",
       "0", "0", ":", "0", "0", ":", "0", "1">>}

\* lines 224-233: build the row, test whether the file exists
SaveCall(p) ==
    /\ spc[p] \in {"idle", "done", "raised"}
    /\ file.kind = "xlsx" => Len(file.rows) < MaxRows
    /\ \E purpose \in Purposes, password \in Passwords, timestamp \in Timestamps :
          /\ sargs' = [sargs EXCEPT ![p] = Args(purpose, password, timestamp)]
          /\ sframe' = [sframe EXCEPT ![p] = row_frame(purpose, password, timestamp)]
    /\ spc' = [spc EXCEPT ![p] = branch_after_check(file)]
    /\ sbase' = [sbase EXCEPT ![p] = file]
    /\ sdirty' = [sdirty EXCEPT ![p] = FALSE]
    /\ UNCHANGED <<file, started, log, genVars, ret, guiVars>>

\* lines 247-250: read the existing rows and put the new row after them
SaveRead(p) ==
    /\ spc[p] = "read"
    /\ LET r == read_and_concat(file, sframe[p])
       IN  /\ spc' = [spc EXCEPT ![p] = IF r.status = "ok" THEN "open" ELSE "raised"]
           /\ sframe' = [sframe EXCEPT ![p] = r.frame]
    /\ sbase' = [sbase EXCEPT ![p] = file]
    /\ UNCHANGED <<file, sargs, sdirty, started, log, genVars, ret, guiVars>>

\* lines 235 and 253: pd.ExcelWriter opens the path for writing, which
\* truncates it; until the writer is closed the path holds no workbook
SaveOpen(p) ==
    /\ spc[p] = "open"
    /\ file' = Corrupt
    /\ spc' = [spc EXCEPT ![p] = "write"]
    /\ UNCHANGED <<sargs, sframe, sbase, sdirty, started, log, genVars, ret, guiVars>>

\* what closing the writer leaves at the path: the workbook, unless another
\* caller wrote the path meanwhile, when the bytes of both may be mixed
close_outcomes(frame, dirty) ==
    IF dirty THEN {to_excel(frame), Corrupt} ELSE {to_excel(frame)}

\* the end of the with block, lines 236-242 and 254-259: the workbook is
\* written and the method returns
SaveClose(p) ==
    /\ spc[p] = "write"
    /\ file' \in close_outcomes(sframe[p], sdirty[p])
    /\ spc' = [spc EXCEPT ![p] = "done"]
    /\ sdirty' = [q \in Procs |-> IF q # p /\ spc[q] = "write" THEN TRUE ELSE sdirty[q]]
    /\ log' = Append(log, [proc |-> p, args |-> sargs[p]])
    /\ UNCHANGED <<sargs, sframe, sbase, started, genVars, ret, guiVars>>

\* the process dies inside the method
Crash(p) ==
    /\ spc[p] \in {"read", "open", "write"}
    /\ spc' = [spc EXCEPT ![p] = "crashed"]
    /\ UNCHANGED <<file, sargs, sframe, sbase, sdirty, started, log, genVars, ret, guiVars>>

(***************************************************************************)
(* Initial states and specifications.                                      *)
(***************************************************************************)
GenInit ==
    /\ prefs = NoPrefs
    /\ pool = <<>>
    /\ ret = Ret("init", "ok", <<>>)

StoreIdle ==
    /\ spc = [p \in Procs |-> "idle"]
    /\ sargs = [p \in Procs |-> NoArgs]
    /\ sframe = [p \in Procs |-> NoFrame]
    /\ sbase = [p \in Procs |-> Absent]
    /\ sdirty = [p \in Procs |-> FALSE]
    /\ log = <<>>

\* a workbook some other program left at the path
WrongShape ==
    Workbook(<<"Site", "Secret">>, << <<StringCell(<<"x">>), StringCell(<<"y">>)>> >>)

\* a table save_excel wrote earlier
OneRow ==
    Workbook(COLUMNS,
             << <<StringCell(<<"O", "L", "D">>), StringCell(<<"p", "w">>),
                  StringCell(<<"2", "0", "2", "3", "-", "1", "2", "-", "3", "1", " ",
                               "2", "3", ":", "5", "9", ":", "5", "9">>)>> >>)
(***************************************************************************)
(* save_excel as one call that runs to completion, as the window calls it. *)
(***************************************************************************)
\* lines 224-259: the outcome of the call and what it leaves at the path
save_excel(f, purpose, password, timestamp) ==
    LET df == row_frame(purpose, password, timestamp)
    IN  IF branch_after_check(f) = "open"
        THEN [status |-> "ok", file |-> to_excel(df)]
        ELSE LET r == read_and_concat(f, df)
             IN  IF r.status = "ok"
                 THEN [status |-> "ok", file |-> to_excel(r.frame)]
                 ELSE [status |-> "raised", file |-> f]

(***************************************************************************)
(* PasswordGUI.generate_password, the handler of the Generate button.      *)
(***************************************************************************)
\* str.strip of blanks
RECURSIVE lstrip(_)
lstrip(s) == IF s # <<>> /\ Head(s) = " " THEN lstrip(Tail(s)) ELSE s
RECURSIVE rstrip(_)
rstrip(s) ==
    IF s # <<>> /\ s[Len(s)] = " " THEN rstrip(SubSeq(s, 1, Len(s) - 1)) ELSE s

\* int(text) of line 172: blanks stripped, an optional sign, then digits;
\* anything else is a ValueError
parse_int(text) ==
    LET t      == rstrip(lstrip(text))
        signed == t # <<>> /\ Head(t) \in {"+", "-"}
        body   == IF signed THEN Tail(t) ELSE t
    IN  IF IsDigits(body)
        THEN [ok |-> TRUE,
              val |-> IF signed /\ Head(t) = "-"
                      THEN 0 - digits_value(body, 0) ELSE digits_value(body, 0)]
        ELSE [ok |-> FALSE, val |-> 0]

\* the validation with the test of line 175 written length < 0
validate_length_allows_zero(text) ==
    LET r == parse_int(text)
    IN  IF ~r.ok THEN "not_a_number"
        ELSE IF r.val < 0 THEN "not_positive"
        ELSE "ok"

\* lines 171-181: which way the validation of the length goes
validate_length(text) ==
    LET r == parse_int(text)
    IN  IF ~r.ok THEN "not_a_number"
        ELSE IF r.val <= 0 THEN "not_positive"
        ELSE "ok"

\* the test of line 196 left out
pool_is_empty_unchecked(p) == FALSE

\* line 196: not self.generator.pool
pool_is_empty(p) == p = <<>>

\* line 211: if purpose (None and '' are both false)
purpose_given(purpose) == purpose.given /\ purpose.text # <<>>

\* result_label: empty, one of the messages, or a password
Message(m) == [kind |-> "message", msg |-> m, text |-> <<>>]
Shown(password) == [kind |-> "password", msg |-> "", text |-> password]
NoLabel == [kind |-> "empty", msg |-> "", text |-> <<>>]

\* what askstring returns: None on cancel, else the text typed
None == [given |-> FALSE, text |-> <<>>]
Typed(text) == [given |-> TRUE, text |-> text]

\* what the user types into length_entry
LengthEntries ==
    {<<>>, <<"x">>, <<"1", ".", "5">>, <<"0">>, <<"-", "1">>, <<" ", "1">>}
\* the check boxes the user ticks: (lowercase, uppercase, numbers, symbols)
CheckboxChoices ==
    {<<FALSE, FALSE, FALSE, FALSE>>, <<FALSE, FALSE, FALSE, TRUE>>,
     <<TRUE, FALSE, TRUE, FALSE>>}
\* what the user answers to the purpose dialog
PurposeAnswers == {None, Typed(<<>>), Typed(<<"w", "e", "b">>)}
\* the instant at which the handler takes the time
GuiTimestamps ==
    {<<"2", "0", "2", "4", "-", "0", "1", "-", "0", "1", " ",
       "0", "0", ":", "0", "0", ":", "0", "0">>}

\* what a request was given (the text of length_entry, the check boxes), what
\* it has done so far, and what it started from
Obs(text, boxes, outcome, gencalls, asked, saves, prefs0, pool0, file0) ==
    [text |-> text, boxes |-> boxes,
     outcome |-> outcome, gencalls |-> gencalls, asked |-> asked, saves |-> saves,
     prefs0 |-> prefs0, pool0 |-> pool0, file0 |-> file0]
Locals(length, password, purpose, timestamp) ==
    [length |-> length, password |-> password, purpose |-> purpose,
     timestamp |-> timestamp]
NoLocals == Locals(0, <<>>, None, <<>>)

\* lines 171-198: validate the length, store the preferences, build the pool
GuiClick ==
    /\ gpc = "idle"
    /\ \E text \in LengthEntries, boxes \in CheckboxChoices :
          LET v     == validate_length(text)
              np    == set_preferences(IntLen(parse_int(text).val),
                                       boxes[1], boxes[2], boxes[3], boxes[4])
              npool == create_pool(np, pool)
          IN  IF v = "not_a_number"
              THEN /\ label' = Message("Length has to be a number.")
                   /\ gobs' = Obs(text, boxes, v, 0, FALSE, 0, prefs, pool, file)
                   /\ glocal' = NoLocals
                   /\ UNCHANGED <<prefs, pool, gpc>>
              ELSE IF v = "not_positive"
              THEN /\ label' = Message("Length has to be positive.")
                   /\ gobs' = Obs(text, boxes, v, 0, FALSE, 0, prefs, pool, file)
                   /\ glocal' = NoLocals
                   /\ UNCHANGED <<prefs, pool, gpc>>
              ELSE /\ prefs' = np
                   /\ pool' = npool
                   /\ glocal' = Locals(parse_int(text).val, <<>>, None, <<>>)
                   /\ IF pool_is_empty(npool)
                      THEN /\ label' = Message("Select at least one character type.")
                           /\ gobs' = Obs(text, boxes, "no_class", 0, FALSE, 0,
                                        prefs, pool, file)
                           /\ UNCHANGED gpc
                      ELSE /\ gpc' = "generate"
                           /\ gobs' = Obs(text, boxes, "running", 0, FALSE, 0,
                                        prefs, pool, file)
                           /\ UNCHANGED label
    /\ UNCHANGED <<ret, storeVars>>

\* lines 201-202: draw the password and show it
GuiGenerate ==
    /\ gpc = "generate"
    /\ \E draws \in DrawSeqs(prefs, pool) :
          LET out == generate_password(prefs, pool, draws)
          IN  IF out.status = "ok"
              THEN /\ label' = Shown(out.value)
                   /\ glocal' = [glocal EXCEPT !.password = out.value]
                   /\ gpc' = "ask"
                   /\ gobs' = [gobs EXCEPT !.gencalls = @ + 1]
              ELSE /\ gpc' = "idle"
                   /\ gobs' = [gobs EXCEPT !.gencalls = @ + 1,
                                           !.outcome = "generate_raised"]
                   /\ UNCHANGED <<label, glocal>>
    /\ UNCHANGED <<prefs, pool, ret, storeVars>>

\* lines 205-211: ask for the purpose, take the time, decide whether to save
GuiAsk ==
    /\ gpc = "ask"
    /\ \E purpose \in PurposeAnswers, timestamp \in GuiTimestamps :
          /\ purpose_given(purpose) /\ file.kind = "xlsx" => Len(file.rows) < GuiMaxRows
          /\ glocal' = [glocal EXCEPT !.purpose = purpose, !.timestamp = timestamp]
          /\ IF purpose_given(purpose)
             THEN /\ gpc' = "save"
                  /\ gobs' = [gobs EXCEPT !.asked = TRUE]
             ELSE /\ gpc' = "idle"
                  /\ gobs' = [gobs EXCEPT !.asked = TRUE, !.outcome = "declined"]
    /\ UNCHANGED <<prefs, pool, ret, label, storeVars>>

\* line 212: save_excel(purpose, password, timestamp)
GuiSave ==
    /\ gpc = "save"
    /\ LET r == save_excel(file, glocal.purpose.text, glocal.password, glocal.timestamp)
       IN  /\ file' = r.file
           /\ gobs' = [gobs EXCEPT !.saves = @ + 1,
                                   !.outcome = IF r.status = "ok" THEN "saved"
                                               ELSE "save_raised"]
    /\ gpc' = "idle"
    /\ UNCHANGED <<prefs, pool, ret, label, glocal,
                   spc, sargs, sframe, sbase, sdirty, started, log>>

GuiInit ==
    /\ gpc = "idle"
    /\ glocal = NoLocals
    /\ label = NoLabel
    /\ gobs = Obs(<<>>, <<FALSE, FALSE, FALSE, FALSE>>, "none", 0, FALSE, 0,
                  NoPrefs, <<>>, Absent)

\* the program: the window on a fresh directory
Init ==
    /\ GenInit
    /\ GuiInit
    /\ StoreIdle
    /\ file = Absent
    /\ started = Absent

Next == GuiClick \/ GuiGenerate \/ GuiAsk \/ GuiSave

Spec == Init /\ [][Next]_vars

\* the Password_Generator class called directly
GenNext == SetPreferences \/ CreatePool \/ GeneratePassword \/ AssignPool

GenSpec == Init /\ [][GenNext]_vars

\* one caller of save_excel, call after call, that may die inside a call
StoreInit ==
    /\ GenInit
    /\ GuiInit
    /\ StoreIdle
    /\ file \in {Absent, Corrupt, WrongShape}
    /\ started = file

StoreNext == SaveCall(1) \/ SaveRead(1) \/ SaveOpen(1) \/ SaveClose(1) \/ Crash(1)

StoreSpec == StoreInit /\ [][StoreNext]_vars

\* two callers of save_excel, one call each, on the same path
RaceInit ==
    /\ GenInit
    /\ GuiInit
    /\ StoreIdle
    /\ file \in {Absent, OneRow}
    /\ started = file

RaceCall(p) == spc[p] = "idle" /\ SaveCall(p)

RaceNext == \E p \in Procs : RaceCall(p) \/ SaveRead(p) \/ SaveOpen(p) \/ SaveClose(p)

RaceSpec == RaceInit /\ [][RaceNext]_vars

(***************************************************************************)
(* Properties.                                                             *)
(***************************************************************************)
Count(c, s) == Cardinality({i \in 1..Len(s) : s[i] = c})

\* the place of a character in lowercase, uppercase, digits, symbols
ALPHABET == LOWERCASE \o UPPERCASE \o DIGITS \o SYMBOLS
Rank(c) == CHOOSE i \in 1..Len(ALPHABET) : ALPHABET[i] = c

AfterCreatePool == ret.op = "create_pool" /\ ret.status = "ok"

\* C1: the pool create_pool leaves is the concatenation, in the order
\* lowercase, uppercase, digits, symbols, of the alphabets the latest
\* set_preferences enabled: each character of an enabled class once, none of
\* a disabled class, non-empty when a flag is true, whatever the length and
\* whatever the pool and preferences were before.
C1_PoolIsEnabledAlphabets ==
    AfterCreatePool =>
        /\ \A c \in Range(LOWERCASE) : Count(c, pool) = IF prefs.lowercase THEN 1 ELSE 0
        /\ \A c \in Range(UPPERCASE) : Count(c, pool) = IF prefs.uppercase THEN 1 ELSE 0
        /\ \A c \in Range(DIGITS) : Count(c, pool) = IF prefs.numbers THEN 1 ELSE 0
        /\ \A c \in Range(SYMBOLS) : Count(c, pool) = IF prefs.symbols THEN 1 ELSE 0
        /\ Range(pool) \subseteq Range(ALPHABET)
        /\ \A i, j \in 1..Len(pool) : i < j => Rank(pool[i]) < Rank(pool[j])
        /\ (prefs.lowercase \/ prefs.uppercase \/ prefs.numbers \/ prefs.symbols)
              => pool # <<>>

\* create_pool has run on lowercase + digits, with a negative length stored
C1_Witness ==
    /\ AfterCreatePool
    /\ prefs.lowercase /\ ~prefs.uppercase /\ prefs.numbers /\ ~prefs.symbols
    /\ prefs.length_input = IntLen(-1)
    /\ pool = LOWERCASE \o DIGITS

AfterGenerate == ret.op = "generate_password"

\* C2: on a non-empty pool and a stored length >= 1 generate_password returns
\* exactly length characters, each one a member of the pool.
C2_PasswordFromPool ==
    (/\ AfterGenerate
     /\ prefs.set /\ prefs.length_input.isint /\ prefs.length_input.val >= 1
     /\ pool # <<>>)
    => /\ ret.status = "ok"
       /\ Len(ret.value) = prefs.length_input.val
       /\ \A i \in 1..Len(ret.value) : ret.value[i] \in Range(pool)

\* a one-character pool gives that character repeated length times
C2_Witness ==
    /\ AfterGenerate
    /\ pool = <<"x">>
    /\ prefs.set /\ prefs.length_input = IntLen(2)
    /\ ret.status = "ok"
    /\ ret.value = <<"x", "x">>

\* C3: with all four flags false create_pool leaves an empty pool, and
\* generate_password on an empty pool fails, whatever length is stored.
C3_EmptyPoolFails ==
    /\ (AfterCreatePool /\ ~prefs.lowercase /\ ~prefs.uppercase
            /\ ~prefs.numbers /\ ~prefs.symbols) => pool = <<>>
    /\ (AfterGenerate /\ pool = <<>>) => ret.status # "ok"

\* the row the specification expects for a call's arguments
ExpectedRow(a) ==
    <<StringCell(upper(a.purpose)), StringCell(a.password), StringCell(a.timestamp)>>

\* C4: from a path with no file, after n >= 1 completed save_excel calls, one
\* after the other, the table is the n rows (upper-cased purpose, password,
\* timestamp) of the calls, in call order.
C4_TableIsTheCalls ==
    (started = Absent /\ spc[1] = "done")
    => file = Workbook(COLUMNS, [i \in 1..Len(log) |-> ExpectedRow(log[i].args)])

\* a table of the three columns Purpose, Password, Timestamp
WellFormedTable(f) == f.kind = "xlsx" /\ f.cols = COLUMNS

\* C5: a call that finds something at the path that is no well-formed
\* three-column table ends in an error and leaves the path as it was.
C5_MalformedFileFails ==
    (/\ spc[1] \in {"done", "raised"}
     /\ exists(sbase[1])
     /\ ~WellFormedTable(sbase[1]))
    => (spc[1] = "raised" /\ file = sbase[1])

\* C6: after a crash inside a call on an existing table, the rows the table
\* held before the call are still there, in order.
C6_CrashKeepsRows ==
    (spc[1] = "crashed" /\ WellFormedTable(sbase[1]))
    => /\ file.kind = "xlsx"
       /\ Len(file.rows) >= Len(sbase[1].rows)
       /\ SubSeq(file.rows, 1, Len(sbase[1].rows)) = sbase[1].rows

BothDone == \A p \in Procs : spc[p] = "done"
LastWriter == log[Len(log)].proc

\* C7: nothing orders two calls on the same path.  When both have returned,
\* the path holds what the caller that closed last wrote: the rows that
\* caller had read (none, when it had found no file) and its own row after
\* them.  The other caller's row is in the table only if the last writer read
\* the file after the other had written it; otherwise the update is lost.
C7_LastWriterWins ==
    BothDone =>
        \/ file = Corrupt /\ sdirty[LastWriter]
        \/ /\ file.kind = "xlsx"
           /\ Len(file.rows) = Len(sbase[LastWriter].rows) + 1
           /\ file.rows[Len(file.rows)][Len(file.cols)] =
                 StringCell(sargs[LastWriter].timestamp)
           /\ (Len(file.rows) = Len(started.rows) + 1) <=> (sbase[LastWriter] = started)

\* both calls returned and an existing one-row table holds two rows, not three
C7_LostUpdate ==
    /\ BothDone
    /\ started = OneRow
    /\ file.kind = "xlsx"
    /\ Len(file.rows) = 2
    /\ ~sdirty[LastWriter]

\* both calls found no file, both returned, and the table holds one row
C7_LostUpdateOnCreate ==
    /\ BothDone
    /\ started = Absent
    /\ \A p \in Procs : sbase[p] = Absent
    /\ file.kind = "xlsx"
    /\ Len(file.rows) = 1

\* the texts of length_entry that are no number, or a number <= 0
InvalidLengthTexts == {<<>>, <<"x">>, <<"1", ".", "5">>, <<"0">>, <<"-", "1">>}
NoBoxes == <<FALSE, FALSE, FALSE, FALSE>>
Requested == gobs.outcome # "none"

\* C8: a request whose length is not a number or is <= 0 is answered with a
\* message; prefs, pool and the table are as before the request, no password
\* is drawn, the purpose is not asked for, nothing is saved.
C8_InvalidLengthChangesNothing ==
    (Requested /\ gobs.text \in InvalidLengthTexts)
    => /\ gobs.outcome \in {"not_a_number", "not_positive"}
       /\ gpc = "idle"
       /\ prefs = gobs.prefs0
       /\ pool = gobs.pool0
       /\ file = gobs.file0
       /\ label.kind = "message"
       /\ gobs.gencalls = 0
       /\ ~gobs.asked
       /\ gobs.saves = 0

\* a request with length 0 was rejected after an earlier one had built a pool
C8_Witness ==
    /\ gobs.text = <<"0">>
    /\ gobs.outcome = "not_positive"
    /\ label = Message("Length has to be positive.")
    /\ pool # <<>>
    /\ file.kind = "xlsx"

\* C9: a request with a valid length and no box ticked stops once the pool is
\* built: generate_password is not called, the label shows the message and
\* no password, the purpose is not asked for, the table is unchanged.  So the
\* handler only ever calls generate_password with a length >= 1 and a
\* non-empty pool.
C9_NoClassStopsBeforeGenerate ==
    /\ (Requested /\ gobs.text \notin InvalidLengthTexts /\ gobs.boxes = NoBoxes)
       => /\ gobs.outcome = "no_class"
          /\ gpc = "idle"
          /\ pool = <<>>
          /\ label = Message("Select at least one character type.")
          /\ gobs.gencalls = 0
          /\ ~gobs.asked
          /\ gobs.saves = 0
          /\ file = gobs.file0
    /\ (gpc = "generate" \/ (Requested /\ gobs.gencalls > 0))
       => /\ prefs.length_input.isint
          /\ prefs.length_input.val >= 1
          /\ pool # <<>>
          /\ gobs.outcome # "generate_raised"

\* a request with length 1 and no box ticked, after an earlier one had saved
C9_Witness ==
    /\ gobs.text = <<" ", "1">>
    /\ gobs.boxes = NoBoxes
    /\ gobs.outcome = "no_class"
    /\ gobs.pool0 # <<>>
    /\ file.kind = "xlsx"

\* C10: without a purpose (dialog cancelled, or '') the password is drawn and
\* shown, and nothing is saved; with a purpose exactly one row is added, and
\* its password is the one this request drew and shows.
C10_SavedOnlyWithPurpose ==
    /\ gobs.outcome = "declined"
       => /\ ~purpose_given(glocal.purpose)
          /\ gobs.gencalls = 1
          /\ label = Shown(glocal.password)
          /\ gobs.saves = 0
          /\ file = gobs.file0
    /\ (gpc = "idle" /\ gobs.asked /\ glocal.purpose.given /\ glocal.purpose.text # <<>>)
       => /\ gobs.outcome = "saved"
          /\ gobs.saves = 1
          /\ file.kind = "xlsx"
          /\ Len(file.rows) = Len(gobs.file0.rows) + 1
          /\ label = Shown(glocal.password)
          /\ file.rows[Len(file.rows)][2] = StringCell(glocal.password)

====
